---- MODULE Spec2Model ----
(***************************************************************************)
(* Model of src/main_KdV_generate_data.py: the KdV solver classes          *)
(* (KdVSolverBaseClass, KdVIntegratingFactorSolver) and the driving script *)
(* that builds the grids, constructs solvers and calls solve.              *)
(*                                                                         *)
(* Representation.                                                         *)
(*  - A numpy array of coordinates is a sequence of integers.  linspace    *)
(*    samples are kept as exact integers in units of 1/div, div being the  *)
(*    number of intervals, so that no rounding is introduced.              *)
(*  - A field (physical or spectral) is a record [len, term]: len is the   *)
(*    array length as numpy computes it, term is the chain of operations   *)
(*    that produced the samples from an input field (an uninterpreted      *)
(*    term: two fields with the same term hold the same samples).          *)
(*  - A Python call yields a result record: either a value or the kind of  *)
(*    the exception raised.                                                *)
(***************************************************************************)
EXTENDS Integers, Sequences, FiniteSets, TLC

\* ---------------------------------------------------------------- bounds
MaxN     == 3   \* largest requested spatial sample count Nx
MaxNt    == 4   \* largest requested temporal sample count Nt
MaxSkip  == 3   \* largest recording stride nSkip
MaxCalls == 2   \* operations invoked on solver objects in one script run

\* ------------------------------------------------------ program constants
xMin == 0
xMax == 2
tMin == 0
tMax == 6

Solvers == {1, 2}
Classes == {"KdVSolverBaseClass", "KdVIntegratingFactorSolver"}
Deltas  == {22, 44}          \* delta in units of 1/1000
Seeds   == {1, 2}            \* two distinguishable sample vectors per length

\* ------------------------------------------------------------------ state
VARIABLES
  pc,        \* script position: "start", "built" (grids exist), "halted"
  mainErr,   \* exception that ended the script while building the grids
  Nx, Nt,    \* requested sample counts
  x, t,      \* SpatialGrid and TemporalGrid
  npRagged,  \* what this numpy build does with ragged input to np.asarray
  solver,    \* the solver objects
  st,        \* per solver: "absent", "InitFailed", "Initialized", "Running",
             \* "Completed", "Failed"
  exc,       \* per solver: the exception its last operation raised
  call,      \* the activation of solve in progress: locals u, uk, i
  ret,       \* per solver: the value its last solve returned
  out,       \* the value the last direct singleStep invocation returned
  ncalls,    \* operations invoked on solver objects so far
  hist       \* per solver, for its last solve: the argument, len(_t) on
             \* entry, and the loop states (i, uk, len(_t)) gone through

vars == <<pc, mainErr, Nx, Nt, x, t, npRagged, solver, st, exc, call, ret, out,
          ncalls, hist>>

\* ------------------------------------------------------- Python results
Ok(v)    == [ok |-> TRUE, val |-> v, err |-> "none"]
Raise(e) == [ok |-> FALSE, val |-> <<>>, err |-> e]

\* a[i] on a 1-D array: 0-based, a negative index counts from the end
InBounds(a, i) == -Len(a) <= i /\ i < Len(a)
Item(a, i) ==
  IF ~InBounds(a, i) THEN Raise("IndexError")
  ELSE IF i >= 0 THEN Ok(a[i + 1])
  ELSE Ok(a[Len(a) + i + 1])

\* ------------------------------------------------------------ numpy/scipy
\* np.linspace(lo, hi, num, endpoint): samples in units of 1/div
linspace(lo, hi, num, endpoint) ==
  IF num < 0 THEN Raise("ValueError")
  ELSE LET div == IF endpoint THEN num - 1 ELSE num
           d   == IF div > 0 THEN div ELSE 1
       IN  Ok([j \in 1..num |-> lo * d + (j - 1) * (hi - lo)])

\* rfftfreq(n, d)*2*pi: the n//2+1 non-negative bins, kept as bin numbers
rfftfreq(n) == [m \in 1..((n \div 2) + 1) |-> m - 1]

Op(name, a, b, c) == [op |-> name, a |-> a, b |-> b, c |-> c]
Field(n, term) == [len |-> n, term |-> term]
NoField == Field(0, <<>>)

\* an input field of n samples
InputField(n, seed) == Field(n, <<Op("input", seed, n, 0)>>)

\* output length of rfft for n real samples: n//2 + 1 bins
rfft_n(n) == (n \div 2) + 1

\* output length of irfft for m bins when n is left to its default: 2*(m-1)
irfft_n(m) == 2 * (m - 1)

\* scipy.fft.rfft(u): an empty input is refused
rfft(u) ==
  IF u.len < 1 THEN Raise("ValueError")
  ELSE Ok(Field(rfft_n(u.len), Append(u.term, Op("rfft", u.len, 0, 0))))

\* scipy.fft.irfft(uk): an output of fewer than one sample is refused
irfft(uk) ==
  IF irfft_n(uk.len) < 1 THEN Raise("ValueError")
  ELSE Ok(Field(irfft_n(uk.len), Append(uk.term, Op("irfft", uk.len, 0, 0))))

\* numpy broadcasting of two 1-D shapes
Broadcast(la, lb) ==
  IF la = lb \/ lb = 1 THEN Ok(la)
  ELSE IF la = 1 THEN Ok(lb)
  ELSE Raise("ValueError")

\* r, then f on its value; an exception propagates
Then(r, f(_)) == IF r.ok THEN f(r.val) ELSE r

\* ------------------------------------------------- KdVSolverBaseClass
NoSolver ==
  [cls |-> "none", nSkip |-> 0, delta |-> 0, dt |-> 0, t |-> <<>>, x |-> <<>>,
   k |-> <<>>, _t |-> <<>>, _u |-> <<>>]

\* __init__ taking the spacings only where two samples exist
KdVSolverBaseClass__init__Unchecked(cls, tt, xx, delta, nSkip) ==
  Ok([cls |-> cls, nSkip |-> nSkip, delta |-> delta,
      dt |-> IF Len(tt) >= 2 THEN tt[2] - tt[1] ELSE 0, t |-> tt, x |-> xx,
      k |-> rfftfreq(Len(xx)), _t |-> <<>>, _u |-> <<>>])

\* __init__ taking the spatial spacing as x[2]-x[1]
KdVSolverBaseClass__init__ThirdSample(cls, tt, xx, delta, nSkip) ==
  LET t1 == Item(tt, 1)
      x2 == Item(xx, 2)
  IN  IF ~t1.ok THEN Raise(t1.err)
      ELSE IF ~x2.ok THEN Raise(x2.err)
      ELSE Ok([cls |-> cls, nSkip |-> nSkip, delta |-> delta,
               dt |-> t1.val - Item(tt, 0).val, t |-> tt, x |-> xx,
               k |-> rfftfreq(Len(xx)), _t |-> <<>>, _u |-> <<>>])

\* __init__ with _t and _u held by the class, so that every object sees
\* the lists the first one has filled
KdVSolverBaseClass__init__SharedLists(cls, tt, xx, delta, nSkip) ==
  LET t1 == Item(tt, 1)
      x1 == Item(xx, 1)
  IN  IF ~t1.ok THEN Raise(t1.err)
      ELSE IF ~x1.ok THEN Raise(x1.err)
      ELSE Ok([cls |-> cls, nSkip |-> nSkip, delta |-> delta,
               dt |-> t1.val - Item(tt, 0).val, t |-> tt, x |-> xx,
               k |-> rfftfreq(Len(xx)), _t |-> solver[1]._t,
               _u |-> solver[1]._u])

\* __init__(self, t, x, delta, nSkip) of class cls (both classes share it);
\* tt and xx are its arguments t and x
KdVSolverBaseClass__init__(cls, tt, xx, delta, nSkip) ==
  LET t1 == Item(tt, 1)
      t0 == Item(tt, 0)
      x1 == Item(xx, 1)
      x0 == Item(xx, 0)
  IN  IF ~t1.ok THEN Raise(t1.err)
      ELSE IF ~t0.ok THEN Raise(t0.err)
      ELSE IF ~x1.ok THEN Raise(x1.err)
      ELSE IF ~x0.ok THEN Raise(x0.err)
      ELSE Ok([cls |-> cls, nSkip |-> nSkip, delta |-> delta,
               dt |-> t1.val - t0.val, t |-> tt, x |-> xx,
               k |-> rfftfreq(Len(xx)), _t |-> <<>>, _u |-> <<>>])

\* ---------------------------------------- KdVIntegratingFactorSolver
\* _dUkdt(dt, uk): shape of -0.5j*k*exp(-g*dt)*rfft(irfft(exp(g*dt)*uk)**2)
\* for an argument of m bins
_dUkdt(self, m) ==
  Then(Broadcast(Len(self.k), m), LAMBDA a :
    IF irfft_n(a) < 1 THEN Raise("ValueError")
    ELSE Broadcast(Len(self.k), rfft_n(irfft_n(a))))

\* _a2o(Uk) = Uk*exp(g*dt)
_a2o(self, m) == Broadcast(m, Len(self.k))

\* _RK4(uk): shape of the four stages and of their combination
_RK4(self, m) ==
  Then(_dUkdt(self, m), LAMBDA k1 :
  Then(Broadcast(m, k1), LAMBDA a2 :
  Then(_dUkdt(self, a2), LAMBDA k2 :
  Then(Broadcast(m, k2), LAMBDA a3 :
  Then(_dUkdt(self, a3), LAMBDA k3 :
  Then(Broadcast(m, k3), LAMBDA a4 :
  Then(_dUkdt(self, a4), LAMBDA k4 :
  Then(Broadcast(k1, k2), LAMBDA s1 :
  Then(Broadcast(s1, k3), LAMBDA s2 :
  Then(Broadcast(s2, k4), LAMBDA s3 :
    Broadcast(m, s3)))))))))))

\* c0*uk + c1*k1 + c2*k2 + c3*k3 + c4*k4
Lin(c0, c1, c2, c3, c4) == [uk |-> c0, k1 |-> c1, k2 |-> c2, k3 |-> c3, k4 |-> c4]

\* a scheme whose third stage starts from the first slope: uk + dt*k1/2
_RK4_stages_ThirdFromFirst(dt) ==
  [evals |-> << [k |-> "k1", at |-> 0,         arg |-> Lin(1, 0, 0, 0, 0)],
                [k |-> "k2", at |-> dt \div 2, arg |-> Lin(1, dt \div 2, 0, 0, 0)],
                [k |-> "k3", at |-> dt \div 2, arg |-> Lin(1, dt \div 2, 0, 0, 0)],
                [k |-> "k4", at |-> dt,        arg |-> Lin(1, 0, 0, dt, 0)] >>,
   sum   |-> Lin(1, dt \div 6, (2 * dt) \div 6, (2 * dt) \div 6, dt \div 6)]

\* _RK4(uk): the calls of _dUkdt in the order they are made, each with its
\* sub-time and its argument, and the combination that is returned
_RK4_stages(dt) ==
  [evals |-> << [k |-> "k1", at |-> 0,         arg |-> Lin(1, 0, 0, 0, 0)],
                [k |-> "k2", at |-> dt \div 2, arg |-> Lin(1, dt \div 2, 0, 0, 0)],
                [k |-> "k3", at |-> dt \div 2, arg |-> Lin(1, 0, dt \div 2, 0, 0)],
                [k |-> "k4", at |-> dt,        arg |-> Lin(1, 0, 0, dt, 0)] >>,
   sum   |-> Lin(1, dt \div 6, (2 * dt) \div 6, (2 * dt) \div 6, dt \div 6)]

\* a stepper that goes back from the auxiliary to the true field only in the
\* steps solve records: _RK4(uk) alone where i % nSkip != 0
KdVIntegratingFactorSolver_singleStep_A2oOnRecord(self, uk) ==
  Then(_RK4(self, uk.len), LAMBDA r :
  Then(_a2o(self, r), LAMBDA n :
    Ok(Field(n, Append(uk.term,
                       Op(IF self.nSkip >= 1 /\ call.i % self.nSkip # 0
                          THEN "_RK4" ELSE "singleStep",
                          self.dt, self.delta, Len(self.k)))))))

\* KdVIntegratingFactorSolver.singleStep(self, uk) = _a2o(_RK4(uk))
KdVIntegratingFactorSolver_singleStep(self, uk) ==
  Then(_RK4(self, uk.len), LAMBDA r :
  Then(_a2o(self, r), LAMBDA n :
    Ok(Field(n, Append(uk.term,
                       Op("singleStep", self.dt, self.delta, Len(self.k)))))))

\* self.singleStep(*args): Python binds the call to the method the class
\* defines: the base class declares singleStep(self), the subclass
\* singleStep(self, uk)
singleStep(self, args) ==
  IF self.cls = "KdVSolverBaseClass"
  THEN IF Len(args) # 0 THEN Raise("TypeError")
       ELSE Raise("NotImplementedError")
  ELSE IF Len(args) # 1 THEN Raise("TypeError")
       ELSE KdVIntegratingFactorSolver_singleStep(self, args[1])

\* np.asarray(list of arrays): a rectangular array needs rows of one length
Ragged(rows) == \E a, b \in DOMAIN rows : rows[a].len # rows[b].len

\* ------------------------------------------------------ script state
NoCall == [s |-> 0, u |-> NoField, uk |-> NoField, i |-> 0]
NoRet  == [t |-> <<>>, u |-> <<>>]
NoHist == [u |-> NoField, base |-> 0, steps |-> <<>>]

Sizes   == -1..MaxN
Lengths == 0..(MaxN + 1)
Inputs  == {InputField(n, seed) : n \in Lengths, seed \in Seeds}

Init ==
  /\ pc = "start"
  /\ mainErr = "none"
  /\ Nx = 0
  /\ Nt = 0
  /\ x = <<>>
  /\ t = <<>>
  /\ npRagged \in {"ValueError", "object"}
  /\ solver = [s \in Solvers |-> NoSolver]
  /\ st = [s \in Solvers |-> "absent"]
  /\ exc = [s \in Solvers |-> "none"]
  /\ call = NoCall
  /\ ret = [s \in Solvers |-> NoRet]
  /\ out = NoField
  /\ ncalls = 0
  /\ hist = [s \in Solvers |-> NoHist]

\* ------------------------------------------------------------- the script
\* main_generate_data: the computational domain for sizes nx, nt
main_domain(nx, nt) ==
  /\ pc = "start"
  /\ LET rx == linspace(xMin, xMax, nx, FALSE)
         rt == linspace(tMin, tMax, nt, TRUE)
     IN  /\ Nx' = nx
         /\ Nt' = nt
         /\ IF ~rx.ok
            THEN pc' = "halted" /\ mainErr' = rx.err /\ UNCHANGED <<x, t>>
            ELSE IF ~rt.ok
            THEN pc' = "halted" /\ mainErr' = rt.err /\ x' = rx.val
                 /\ UNCHANGED t
            ELSE pc' = "built" /\ x' = rx.val /\ t' = rt.val
                 /\ UNCHANGED mainErr
  /\ UNCHANGED <<npRagged, solver, st, exc, call, ret, out, ncalls, hist>>

\* KdVSolver = cls(t, x, delta, nSkip)
Construct(s, cls, delta, nSkip) ==
  /\ pc = "built"
  /\ call.s = 0
  /\ st[s] = "absent"
  /\ s = 1 \/ st[1] # "absent"
  /\ LET r == KdVSolverBaseClass__init__(cls, t, x, delta, nSkip)
     IN  IF r.ok
         THEN /\ solver' = [solver EXCEPT ![s] = r.val]
              /\ st' = [st EXCEPT ![s] = "Initialized"]
              /\ UNCHANGED exc
         ELSE /\ st' = [st EXCEPT ![s] = "InitFailed"]
              /\ exc' = [exc EXCEPT ![s] = r.err]
              /\ UNCHANGED solver
  /\ UNCHANGED <<pc, mainErr, Nx, Nt, x, t, npRagged, call, ret, out, ncalls,
                 hist>>

\* an exception leaves solve: the activation ends, the object keeps its lists
Abort(s, e) ==
  /\ st' = [st EXCEPT ![s] = "Failed"]
  /\ exc' = [exc EXCEPT ![s] = e]
  /\ call' = NoCall

\* the first entry stamped with self.t[1]
FirstEntry_SecondInstant(self, u) == [t |-> Item(self.t, 1).val, u |-> u]

\* the entry solve records on entry: (self.t[0], u)
FirstEntry(self, u) == [t |-> Item(self.t, 0).val, u |-> u]

\* the snapshot stamped with the time before the step: self.t[i-1]
RecordedTime_Previous(self, i) == Item(self.t, i - 1).val

\* the time recorded with the snapshot of loop index i: self.t[i]
RecordedTime(self, i) == Item(self.t, i).val

\* solve(u), up to the loop: the first entry is recorded, u is transformed
solve_enter(s, u) ==
  /\ pc = "built"
  /\ call.s = 0
  /\ st[s] \in {"Initialized", "Completed"}
  /\ ncalls < MaxCalls
  /\ ncalls' = ncalls + 1
  /\ LET self == solver[s]
         r    == rfft(u)
     IN  /\ solver' = [solver EXCEPT ![s]._t = Append(self._t, FirstEntry(self, u).t),
                                      ![s]._u = Append(self._u, FirstEntry(self, u).u)]
         /\ hist' = [hist EXCEPT ![s] = [u |-> u, base |-> Len(self._t),
                                         steps |-> <<>>]]
         /\ IF r.ok
            THEN /\ call' = [s |-> s, u |-> u, uk |-> r.val, i |-> 1]
                 /\ st' = [st EXCEPT ![s] = "Running"]
                 /\ exc' = [exc EXCEPT ![s] = "none"]
            ELSE Abort(s, r.err)
  /\ UNCHANGED <<pc, mainErr, Nx, Nt, x, t, npRagged, ret, out>>

\* recording the first step and every nSkip-th after it: (i-1) % nSkip == 0
RecordDue_FromFirstStep(i, nSkip) == (i - 1) % nSkip = 0

\* i % nSkip == 0 for Python ints, i >= 1 and nSkip >= 1
RecordDue(i, nSkip) == i % nSkip = 0

\* a loop that leaves out the last index: range(1, self.t.size - 1)
LoopEnd_BeforeLast(self) == Len(self.t) - 1

\* the end of range(1, self.t.size)
LoopEnd(self) == Len(self.t)

\* one iteration of the loop of solve, for the index call.i
solve_step ==
  /\ call.s # 0
  /\ call.i < LoopEnd(solver[call.s])
  /\ LET s    == call.s
         self == solver[s]
         i    == call.i
         r    == singleStep(self, <<call.uk>>)
     IN  IF ~r.ok THEN Abort(s, r.err) /\ UNCHANGED <<solver, hist>>
         ELSE IF self.nSkip = 0
         THEN Abort(s, "ZeroDivisionError") /\ UNCHANGED <<solver, hist>>
         ELSE IF ~RecordDue(i, self.nSkip)
         THEN /\ call' = [call EXCEPT !.uk = r.val, !.i = i + 1]
              /\ hist' = [hist EXCEPT ![s].steps =
                            Append(@, [i |-> i, uk |-> r.val, n |-> Len(self._t),
                                       dt |-> self.dt,
                                       rk |-> _RK4_stages(self.dt)])]
              /\ UNCHANGED <<solver, st, exc>>
         ELSE LET ir == irfft(r.val)
              IN  IF ~ir.ok THEN Abort(s, ir.err) /\ UNCHANGED <<solver, hist>>
                  ELSE /\ solver' = [solver EXCEPT
                                       ![s]._u = Append(self._u, ir.val),
                                       ![s]._t = Append(self._t, RecordedTime(self, i))]
                       /\ call' = [call EXCEPT !.uk = r.val, !.i = i + 1]
                       /\ hist' = [hist EXCEPT ![s].steps =
                                     Append(@, [i |-> i, uk |-> r.val,
                                                n |-> Len(self._t) + 1,
                                                dt |-> self.dt,
                                                rk |-> _RK4_stages(self.dt)])]
                       /\ UNCHANGED <<st, exc>>
  /\ UNCHANGED <<pc, mainErr, Nx, Nt, x, t, npRagged, ret, out, ncalls>>

\* the loop is exhausted: return np.asarray(self._t), np.asarray(self._u)
solve_return ==
  /\ call.s # 0
  /\ call.i >= LoopEnd(solver[call.s])
  /\ LET s    == call.s
         self == solver[s]
     IN  IF Ragged(self._u) /\ npRagged = "ValueError"
         THEN Abort(s, "ValueError") /\ UNCHANGED ret
         ELSE /\ ret' = [ret EXCEPT ![s] = [t |-> self._t, u |-> self._u]]
              /\ st' = [st EXCEPT ![s] = "Completed"]
              /\ call' = NoCall
              /\ UNCHANGED exc
  /\ UNCHANGED <<pc, mainErr, Nx, Nt, x, t, npRagged, solver, out, ncalls, hist>>

\* solver.singleStep(*args) invoked directly by the script
call_singleStep(s, args) ==
  /\ pc = "built"
  /\ call.s = 0
  /\ st[s] \in {"Initialized", "Completed"}
  /\ ncalls < MaxCalls
  /\ ncalls' = ncalls + 1
  /\ LET r == singleStep(solver[s], args)
     IN  IF r.ok
         THEN out' = r.val /\ exc' = [exc EXCEPT ![s] = "none"] /\ UNCHANGED st
         ELSE /\ st' = [st EXCEPT ![s] = "Failed"]
              /\ exc' = [exc EXCEPT ![s] = r.err]
              /\ UNCHANGED out
  /\ UNCHANGED <<pc, mainErr, Nx, Nt, x, t, npRagged, solver, call, ret, hist>>

\* the spectral fields a script can hand to singleStep
Spectra == {rfft(u).val : u \in {v \in Inputs : v.len >= 1}}

\* a script that works with one solver object
Next ==
  \/ \E nx \in Sizes, nt \in 0..MaxNt : main_domain(nx, nt)
  \/ \E cls \in Classes, delta \in Deltas, nSkip \in 0..MaxSkip :
       Construct(1, cls, delta, nSkip)
  \/ \E u \in Inputs : solve_enter(1, u)
  \/ solve_step
  \/ solve_return
  \/ \E args \in {<<>>} \cup {<<uk>> : uk \in Spectra} : call_singleStep(1, args)

Spec == Init /\ [][Next]_vars

\* a script that constructs a solver and runs it once, then constructs a
\* second solver of the same class on the same grids and runs it once on a
\* field of the same length
solve_fresh(s, u) == st[s] = "Initialized" /\ solve_enter(s, u)

NextPair ==
  \/ \E nx \in Sizes, nt \in 0..MaxNt : main_domain(nx, nt)
  \/ \E cls \in Classes, delta \in Deltas, nSkip \in 0..MaxSkip :
       Construct(1, cls, delta, nSkip)
  \/ \E u \in Inputs : solve_fresh(1, u)
  \/ \E delta \in Deltas, nSkip \in 0..MaxSkip :
       /\ st[1] \in {"Completed", "Failed"}
       /\ Construct(2, solver[1].cls, delta, nSkip)
  \/ \E u \in Inputs : u.len = hist[1].u.len /\ solve_fresh(2, u)
  \/ solve_step
  \/ solve_return

SpecPair == Init /\ [][NextPair]_vars

\* the transform pair on its own, as the first stage of the first step
\* applies it (exp(g*0) = 1): a field u of the grid's length is transformed
\* forward, then back
transform_forward(u) ==
  /\ pc = "built"
  /\ u.len = Len(x)
  /\ LET r == rfft(u)
     IN  IF r.ok
         THEN /\ call' = [s |-> 0, u |-> u, uk |-> r.val, i |-> 0]
              /\ pc' = "forward"
              /\ UNCHANGED mainErr
         ELSE pc' = "halted" /\ mainErr' = r.err /\ UNCHANGED call
  /\ UNCHANGED <<Nx, Nt, x, t, npRagged, solver, st, exc, ret, out, ncalls, hist>>

transform_inverse ==
  /\ pc = "forward"
  /\ LET r == irfft(call.uk)
     IN  IF r.ok
         THEN out' = r.val /\ pc' = "inverse" /\ UNCHANGED mainErr
         ELSE pc' = "halted" /\ mainErr' = r.err /\ UNCHANGED out
  /\ UNCHANGED <<Nx, Nt, x, t, npRagged, solver, st, exc, call, ret, ncalls, hist>>

NextTransform ==
  \/ \E nx \in Sizes, nt \in 0..MaxNt : main_domain(nx, nt)
  \/ \E u \in Inputs : transform_forward(u)
  \/ transform_inverse

SpecTransform == Init /\ [][NextTransform]_vars

\* ================================================================ claims
Fresh(s)   == hist[s].base = 0
Entered(s) == hist[s].u # NoField
Done(s)    == Len(hist[s].steps)
Returned(s) == st[s] = "Completed"

CeilDiv(a, b)  == (a + b - 1) \div b

\* the spectral field after exactly m invocations of singleStep from uk
RECURSIVE StepN(_, _, _)
StepN(self, uk, m) ==
  IF m = 0 THEN Ok(uk)
  ELSE LET r == StepN(self, uk, m - 1)
       IN  IF r.ok THEN singleStep(self, <<r.val>>) ELSE r

\* C1 as stated: the first solve on a fresh solver with Nt >= 2, nSkip >= 1
\* returns ceil((Nt-1)/nSkip) + 1 recorded time instants.
C1_SnapshotCountCeil ==
  \A s \in Solvers :
    (Returned(s) /\ Fresh(s) /\ solver[s].nSkip >= 1)
      => Len(ret[s].t) = CeilDiv(Len(solver[s].t) - 1, solver[s].nSkip) + 1

\* C1 amended: the first solve on a fresh solver with Nt >= 2, nSkip >= 1
\* returns floor((Nt-1)/nSkip) + 1 recorded time instants.
C1_SnapshotCountFloor ==
  \A s \in Solvers :
    (Returned(s) /\ Fresh(s) /\ solver[s].nSkip >= 1)
      => Len(ret[s].t) = ((Len(solver[s].t) - 1) \div solver[s].nSkip) + 1

C1_Witness ==
  /\ Returned(1) /\ Fresh(1)
  /\ solver[1].nSkip = 2
  /\ Len(solver[1].t) = 4
  /\ Len(ret[1].t) = 2

\* C2: in the first solve on a fresh solver the first Trajectory entry is
\* (t[0], u) with u the field passed to solve; it is there before any
\* singleStep has been invoked and stays first in what solve returns.
C2_FirstSnapshot ==
  \A s \in Solvers :
    (Entered(s) /\ Fresh(s))
      => /\ Len(solver[s]._t) >= 1 /\ Len(solver[s]._u) >= 1
         /\ solver[s]._t[1] = t[1]
         /\ solver[s]._u[1] = hist[s].u
         /\ Returned(s) => ret[s].t[1] = t[1] /\ ret[s].u[1] = hist[s].u

C2_Witness ==
  /\ call.s = 1 /\ Fresh(1) /\ Done(1) = 0 /\ call.i = 1
  /\ solver[1].nSkip = 2
  /\ solver[1]._t = <<t[1]>>
  /\ solver[1]._u = <<call.u>>

\* C3: in a solve with the integrating-factor stepper and nSkip >= 1, after
\* i steps exactly floor(i/nSkip) snapshots follow the call's first entry;
\* the j-th of them carries the time t[j*nSkip] and the inverse transform
\* of the field after exactly j*nSkip steps, and the recorded times
\* increase strictly.
C3_RecordEveryNSkip ==
  \A s \in Solvers :
    (Entered(s) /\ solver[s].nSkip >= 1 /\ hist[s].u.len >= 1)
      => LET self == solver[s]
             b    == hist[s].base
             n    == Len(self._t) - b - 1
         IN  /\ Len(self._u) = Len(self._t)
             /\ n = Done(s) \div self.nSkip
             /\ \A j \in 1..n :
                  /\ self._t[b + 1 + j] = self.t[j * self.nSkip + 1]
                  /\ self._t[b + 1 + j] > self._t[b + j]
                  /\ LET r == StepN(self, rfft(hist[s].u).val, j * self.nSkip)
                     IN  r.ok /\ self._u[b + 1 + j] = irfft(r.val).val

C3_Witness ==
  /\ Entered(1) /\ solver[1].nSkip = 2 /\ Done(1) = 3
  /\ Len(solver[1]._t) = hist[1].base + 2
  /\ solver[1]._t[hist[1].base + 2] = t[3]

\* C4 as stated: a solve on a base-class solver that got as far as the
\* loop (Nt >= 2, a field rfft accepts) is aborted by the singleStep it
\* invokes on the spectral field, with NotImplementedError (the
\* UnimplementedOperation error).
C4_BaseSolveUnimplemented ==
  \A s \in Solvers :
    (solver[s].cls = "KdVSolverBaseClass" /\ Entered(s)
       /\ hist[s].u.len >= 1 /\ st[s] # "Running")
      => st[s] = "Failed" /\ exc[s] = "NotImplementedError"

\* the Python exceptions that report an unusable size or shape
InvalidConfiguration == {"ValueError", "IndexError"}

InvalidSizes == Nx < 1 \/ Nt < 2

\* C5: once the script has asked for Nx < 1 or Nt < 2, either building the
\* grids raised, or every construction of a solver raises, in both cases
\* with an InvalidConfiguration error; no solver object exists, no step
\* is taken and nothing is recorded.
C5_InvalidSizesRejected ==
  (pc # "start" /\ InvalidSizes)
    => /\ pc = "halted" => mainErr \in InvalidConfiguration
       /\ \A s \in Solvers :
            /\ st[s] \in {"absent", "InitFailed"}
            /\ st[s] = "InitFailed" => exc[s] \in InvalidConfiguration
            /\ solver[s] = NoSolver
            /\ hist[s] = NoHist
            /\ ret[s] = NoRet
       /\ call = NoCall
       /\ ncalls = 0

C5_Witness ==
  /\ pc = "built" /\ Nx = 2 /\ Nt = 1
  /\ st[1] = "InitFailed" /\ exc[1] = "IndexError"

\* C6 as stated: with Nx >= 1 and Nt >= 2 neither the grids nor the
\* construction of a solver raises.
C6_ValidSizesFromOne ==
  (pc # "start" /\ Nx >= 1 /\ Nt >= 2)
    => /\ pc = "built"
       /\ \A s \in Solvers : st[s] # "InitFailed"

\* C6 amended: with Nx >= 2 and Nt >= 2 neither the grids nor the
\* construction of a solver raises, and a constructed solver starts with
\* an empty Trajectory.
C6_ValidSizesFromTwo ==
  (pc # "start" /\ Nx >= 2 /\ Nt >= 2)
    => /\ pc = "built"
       /\ mainErr = "none"
       /\ \A s \in Solvers :
            /\ st[s] # "InitFailed"
            /\ st[s] = "Initialized" /\ ~Entered(s)
                 => solver[s]._t = <<>> /\ solver[s]._u = <<>>

C6_Witness ==
  /\ Nx = 2 /\ Nt = 2 /\ st[1] = "Initialized" /\ ncalls = 0
  /\ Len(solver[1].k) = 2

\* C7 as stated: a solve whose argument has a length other than that of
\* the spatial grid ends with an InvalidConfiguration error, without a
\* step having been computed and without an entry added to the Trajectory.
C7_MismatchedLengthRejected ==
  \A s \in Solvers :
    (Entered(s) /\ hist[s].u.len # Len(solver[s].x))
      => /\ st[s] = "Failed"
         /\ exc[s] \in InvalidConfiguration
         /\ Done(s) = 0
         /\ Len(solver[s]._t) = hist[s].base

\* C7, its last part alone: a solve whose argument has a length other
\* than that of the spatial grid never returns.
C7_MismatchedLengthNeverReturns ==
  \A s \in Solvers :
    (Entered(s) /\ hist[s].u.len # Len(solver[s].x)) => ~Returned(s)

\* the two solvers were constructed with the same arguments
SameConfig ==
  /\ solver[1].cls = solver[2].cls
  /\ solver[1].t = solver[2].t
  /\ solver[1].x = solver[2].x
  /\ solver[1].delta = solver[2].delta
  /\ solver[1].nSkip = solver[2].nSkip

\* C8: two solvers constructed with the same class, grids, delta and nSkip
\* and run once on the same field go through the same loop states, end in
\* the same way and return the same Trajectory.
C8_Determinism ==
  (Entered(1) /\ Entered(2) /\ SameConfig /\ hist[1].u = hist[2].u)
    => /\ \A p \in 1..Done(2) :
            p <= Done(1) /\ hist[2].steps[p] = hist[1].steps[p]
       /\ st[2] # "Running"
            => /\ st[2] = st[1]
               /\ exc[2] = exc[1]
               /\ Done(2) = Done(1)
               /\ ret[2] = ret[1]
               /\ solver[2]._t = solver[1]._t
               /\ solver[2]._u = solver[1]._u

C8_Witness ==
  /\ Entered(1) /\ Entered(2) /\ SameConfig /\ hist[1].u = hist[2].u
  /\ Returned(1) /\ Returned(2)
  /\ Done(2) = 3 /\ Len(ret[2].t) = 2

\* C9 as stated: what a solve returns holds only the entries recorded
\* during that call: it starts with the call's argument and has one entry
\* more than the snapshots the call's steps recorded.
C9_TrajectoryPerCall ==
  \A s \in Solvers :
    (Returned(s) /\ solver[s].nSkip >= 1)
      => /\ ret[s].u[1] = hist[s].u
         /\ Len(ret[s].t) = (Done(s) \div solver[s].nSkip) + 1

\* C10 as stated: in the first solve on a fresh solver with an argument of
\* the grid's length N >= 2, every recorded snapshot has N samples and what
\* solve returns pairs one snapshot with each recorded time.
C10_SnapshotShape ==
  \A s \in Solvers :
    (Entered(s) /\ Fresh(s) /\ hist[s].u.len = Len(solver[s].x))
      => /\ \A j \in DOMAIN solver[s]._u :
              solver[s]._u[j].len = Len(solver[s].x)
         /\ Returned(s) => Len(ret[s].u) = Len(ret[s].t)

\* C11: with nSkip = 1 the first solve on a fresh solver records every
\* step: after i steps the recorded times are t[0..i] in order, and what
\* solve returns has exactly Nt entries, its times being the whole
\* TemporalGrid.
C11_EveryStepRecorded ==
  \A s \in Solvers :
    (Entered(s) /\ Fresh(s) /\ solver[s].nSkip = 1 /\ hist[s].u.len >= 1)
      => /\ solver[s]._t = SubSeq(solver[s].t, 1, Done(s) + 1)
         /\ Returned(s) => /\ ret[s].t = t
                           /\ Len(ret[s].t) = Nt
                           /\ Len(ret[s].u) = Nt

C11_Witness ==
  /\ Returned(1) /\ Fresh(1) /\ solver[1].nSkip = 1
  /\ Nt = 4 /\ ret[1].t = <<0, 6, 12, 18>>

\* C12: with nSkip >= Nt the first solve on a fresh solver records, after
\* the first entry, at most one further entry, and such an entry carries
\* the last TemporalGrid instant; no step before the last is recorded.
C12_LargeStride ==
  \A s \in Solvers :
    (Entered(s) /\ Fresh(s) /\ solver[s].nSkip >= Len(solver[s].t))
      => /\ Len(solver[s]._t) <= 2
         /\ Len(solver[s]._t) = 2
              => /\ solver[s]._t[2] = solver[s].t[Len(solver[s].t)]
                 /\ Done(s) = Len(solver[s].t) - 1
         /\ Returned(s) => ret[s].t[1] = t[1] /\ Len(ret[s].t) <= 2

C12_Witness ==
  /\ Returned(1) /\ Fresh(1)
  /\ solver[1].nSkip = 3 /\ Nt = 3 /\ Done(1) = 2
  /\ ret[1].t = <<0>>

\* the samples a term stands for, in exact arithmetic: an inverse transform
\* to n samples undoes the forward transform of n samples
RECURSIVE Samples(_)
Samples(term) ==
  LET n == Len(term)
  IN  IF n >= 2 /\ term[n].op = "irfft" /\ term[n - 1].op = "rfft"
         /\ irfft_n(term[n].a) = term[n - 1].a
      THEN Samples(SubSeq(term, 1, n - 2))
      ELSE term

\* C13 as stated: for a field u of the grid's length N, irfft(rfft(u)) has
\* N samples and they are those of u, for even and odd N.
C13_RoundTrip ==
  pc = "inverse"
    => /\ out.len = call.u.len
       /\ Samples(out.term) = call.u.term

\* C13 for even N: irfft(rfft(u)) has N samples and they are those of u.
C13_RoundTripEven ==
  (pc = "inverse" /\ call.u.len % 2 = 0)
    => /\ out.len = call.u.len
       /\ Samples(out.term) = call.u.term

\* C14 as stated: a solve call on an integrating-factor solver (stride >= 1,
\* a field of the grid's length) is Running while it has taken the steps
\* 1..i-1 in increasing order, and ends Completed, with the trajectory
\* returned, after exactly Nt-1 steps; it never ends any other way.
C14_SolveCompletes ==
  \A s \in Solvers :
    (/\ Entered(s) /\ ncalls = 1
     /\ solver[s].cls = "KdVIntegratingFactorSolver"
     /\ solver[s].nSkip >= 1
     /\ hist[s].u.len = Len(solver[s].x))
      => /\ st[s] \in {"Running", "Completed"}
         /\ \A p \in 1..Done(s) : hist[s].steps[p].i = p
         /\ st[s] = "Running" => call.s = s /\ Done(s) = call.i - 1
                                 /\ Done(s) <= Nt - 1
         /\ st[s] = "Completed" => Done(s) = Nt - 1 /\ ret[s].t = solver[s]._t

\* C15: every step of an integrating-factor run evaluates the right-hand
\* side exactly four times, in the order k1, k2, k3, k4, at the sub-times
\* 0, dt/2, dt/2, dt, with the arguments uk, uk + dt/2*k1, uk + dt/2*k2,
\* uk + dt*k3, and returns uk + dt/6*(k1 + 2*k2 + 2*k3 + k4); dt is the
\* solver's dt in every step of the run.
C15_ClassicalRK4 ==
  \A s \in Solvers : \A p \in 1..Done(s) :
    LET step == hist[s].steps[p]
        dt   == solver[s].dt
        e    == step.rk.evals
    IN  /\ step.dt = dt
        /\ Len(e) = 4
        /\ <<e[1].k, e[2].k, e[3].k, e[4].k>> = <<"k1", "k2", "k3", "k4">>
        /\ <<e[1].at * 2, e[2].at * 2, e[3].at * 2, e[4].at * 2>>
             = <<0, dt, dt, 2 * dt>>
        /\ e[1].arg = [uk |-> 1, k1 |-> 0, k2 |-> 0, k3 |-> 0, k4 |-> 0]
        /\ e[2].arg = [uk |-> 1, k1 |-> e[2].at, k2 |-> 0, k3 |-> 0, k4 |-> 0]
        /\ e[3].arg = [uk |-> 1, k1 |-> 0, k2 |-> e[3].at, k3 |-> 0, k4 |-> 0]
        /\ e[4].arg = [uk |-> 1, k1 |-> 0, k2 |-> 0, k3 |-> e[4].at, k4 |-> 0]
        /\ step.rk.sum.uk = 1
        /\ <<step.rk.sum.k1 * 6, step.rk.sum.k2 * 6,
              step.rk.sum.k3 * 6, step.rk.sum.k4 * 6>>
             = <<dt, 2 * dt, 2 * dt, dt>>

C15_Witness ==
  /\ Returned(1) /\ Done(1) = 3
  /\ hist[1].steps[3].dt = hist[1].steps[1].dt
  /\ hist[1].steps[3].rk.evals[3].arg.k2 = 3

\* the two solvers differ at most in nSkip, and both strides are valid
SameButStride ==
  /\ solver[1].cls = solver[2].cls
  /\ solver[1].t = solver[2].t
  /\ solver[1].x = solver[2].x
  /\ solver[1].delta = solver[2].delta
  /\ solver[1].nSkip >= 1 /\ solver[2].nSkip >= 1

\* C16: two runs on the same field that differ only in nSkip have the same
\* field after every step i both have taken, each step being the whole
\* singleStep (back-transformation included) whether recorded or not, and
\* every time instant recorded by both carries the same snapshot.
C16_StrideIndependent ==
  (Entered(1) /\ Entered(2) /\ SameButStride /\ hist[1].u = hist[2].u)
    => /\ \A p \in 1..Done(1) :
            /\ hist[1].steps[p].uk.term[Len(hist[1].steps[p].uk.term)].op
                 = "singleStep"
            /\ p <= Done(2) => hist[1].steps[p].uk = hist[2].steps[p].uk
       /\ \A a \in DOMAIN solver[1]._t : \A b \in DOMAIN solver[2]._t :
            solver[1]._t[a] = solver[2]._t[b]
              => solver[1]._u[a] = solver[2]._u[b]

C16_Witness ==
  /\ Returned(1) /\ Returned(2) /\ SameButStride /\ hist[1].u = hist[2].u
  /\ solver[1].nSkip = 1 /\ solver[2].nSkip = 2
  /\ Done(1) = 3 /\ Done(2) = 3
  /\ ret[1].t = <<0, 6, 12, 18>> /\ ret[2].t = <<0, 12>>
  /\ ret[1].u[3] = ret[2].u[2]

====
